---- MODULE Spec2Model ----
\* Model of the idl2json / json2idl command line library
\* (src/idl2json_cli/src/lib.rs, src/idl2json/src/reverse_conversion.rs).
\* Both commands are pure functions of their arguments and of the payload read
\* from standard input: Init draws the arguments and the payload from bounded
\* sets and one action per command applies it.
EXTENDS Integers, Sequences, FiniteSets, TLC

\* ---------------------------------------------------------------- bounds
\* Longest argument list (IDL values in the payload / elements of a JSON array).
MaxArgs == 2
\* Largest number of --did options on one command line.
MaxDids == 2

\* ---------------------------------------------------------------- results
\* anyhow::Result<String>: Ok(text) or Err(message). Text is a sequence of
\* tokens; "\n" is the line break.
Ok(text) == [ok |-> TRUE, out |-> text, err |-> ""]
Err(msg) == [ok |-> FALSE, out |-> <<>>, err |-> msg]

\* ---------------------------------------------------------------- strings
\* A command line string is a sequence of characters.
IsWhitespace(c) == c \in {" ", "\t", "\n"}

RECURSIVE TrimStart(_)
TrimStart(s) ==
  IF s = <<>> THEN <<>>
  ELSE IF IsWhitespace(Head(s)) THEN TrimStart(Tail(s)) ELSE s

RECURSIVE TrimEnd(_)
TrimEnd(s) ==
  IF s = <<>> THEN <<>>
  ELSE IF IsWhitespace(s[Len(s)]) THEN TrimEnd(SubSeq(s, 1, Len(s) - 1)) ELSE s

\* str::trim
Trim(s) == TrimEnd(TrimStart(s))

\* str::starts_with(char)
StartsWith(s, c) == s # <<>> /\ Head(s) = c

\* str::contains(char)
Contains(s, c) == \E i \in 1..Len(s) : s[i] = c

\* str::contains(char::is_whitespace)
ContainsWhitespace(s) == \E i \in 1..Len(s) : IsWhitespace(s[i])

\* ---------------------------------------------------------------- IDL types
PrimT(n) == [k |-> "prim", n |-> n, id |-> <<>>]
OptT(n) == [k |-> "opt", n |-> n, id |-> <<>>]
RecT(f) == [k |-> "rec", n |-> f, id |-> <<>>]
VarT(id) == [k |-> "var", n |-> "", id |-> id]

\* ---------------------------------------------------------------- type strings
S_nat == <<"n", "a", "t">>
S_R == <<"R">>
S_R_padded == <<" ", "R", " ">>
S_tuple == <<"(", "n", "a", "t", ",", "R", ")">>
S_tuple_padded == <<" ", "(", "t", "e", "x", "t", ")">>
S_tuple_bad == <<"(", "n", "a", "t">>
S_opt == <<"o", "p", "t", " ", "n", "a", "t">>
S_opt_tab == <<"o", "p", "t", "\t", "n", "a", "t">>
S_rec == <<"r", "e", "c", "o", "r", "d", "{", "f", "o", "o", ":", "n", "a", "t", "}">>
S_colon == <<"a", ":", "b">>
S_semi == <<"R", ";">>
S_open == <<"R", "{">>
S_close == <<"R", "}">>

TypeStrings ==
  { S_nat, S_R, S_R_padded, S_tuple, S_tuple_padded, S_tuple_bad, S_opt,
    S_opt_tab, S_rec, S_colon, S_semi, S_open, S_close }

\* Option<String>
NoTyp == [some |-> FALSE, s |-> <<>>]
SomeTyp(s) == [some |-> TRUE, s |-> s]

\* IDLType::from_str (candid_parser): the grammar skips white space, so the
\* result depends on the trimmed text only.
IDLType_from_str(s) ==
  LET t == Trim(s) IN
  IF t = S_nat THEN [ok |-> TRUE, ty |-> PrimT("nat")]
  ELSE IF t = S_R THEN [ok |-> TRUE, ty |-> VarT(S_R)]
  ELSE IF t \in {S_opt, S_opt_tab} THEN [ok |-> TRUE, ty |-> OptT("nat")]
  ELSE IF t = S_rec THEN [ok |-> TRUE, ty |-> RecT("foo")]
  ELSE [ok |-> FALSE, ty |-> PrimT("nat")]

\* IDLTypes::from_str (candid_parser): a parenthesised list of types.
IDLTypes_from_str(s) ==
  LET t == Trim(s) IN
  IF t = S_tuple THEN [ok |-> TRUE, args |-> <<PrimT("nat"), VarT(S_R)>>]
  ELSE IF t = Trim(S_tuple_padded) THEN [ok |-> TRUE, args |-> <<PrimT("text")>>]
  ELSE [ok |-> FALSE, args |-> <<>>]

\* ---------------------------------------------------------------- .did files
NoActor == [k |-> "none", args |-> <<>>]
ServT == [k |-> "serv", args |-> <<>>]
ClassT(args) == [k |-> "class", args |-> args]

\* IDLProg { decs: vec![], actor: None }
EmptyProg == [decs |-> {}, actor |-> NoActor]

DecR == [name |-> S_R, ty |-> RecT("foo")]

\* A --did path: unreadable, not a candid program, or a program.
DidFile(state, prog) == [state |-> state, prog |-> prog]

Unreadable == DidFile("unreadable", EmptyProg)
Unparsable == DidFile("unparsable", EmptyProg)
DidNoService == DidFile("ok", EmptyProg)
DidNoInit == DidFile("ok", [decs |-> {DecR}, actor |-> ServT])
DidInitNatR == DidFile("ok", [decs |-> {}, actor |-> ClassT(<<PrimT("nat"), VarT(S_R)>>)])
DidInitText == DidFile("ok", [decs |-> {DecR}, actor |-> ClassT(<<PrimT("text")>>)])

DidFiles == { Unreadable, Unparsable, DidNoService, DidNoInit, DidInitNatR, DidInitText }

RECURSIVE load_did_files(_)
load_did_files(dids) ==
  IF dids = <<>> THEN [ok |-> TRUE, progs |-> <<>>, err |-> ""]
  ELSE IF Head(dids).state = "unreadable"
    THEN [ok |-> FALSE, progs |-> <<>>, err |-> "Could not read did file"]
  ELSE IF Head(dids).state = "unparsable"
    THEN [ok |-> FALSE, progs |-> <<>>, err |-> "Failed to parse did file"]
  ELSE LET rest == load_did_files(Tail(dids)) IN
    IF rest.ok THEN [rest EXCEPT !.progs = <<Head(dids).prog>> \o @] ELSE rest

\* polyfill::idl_prog::get_init_arg_type: the argument types of the service's
\* init clause, None without a service or without an init clause.
get_init_arg_type(prog) ==
  IF prog.actor.k = "class"
    THEN [some |-> TRUE, args |-> prog.actor.args]
    ELSE [some |-> FALSE, args |-> <<>>]

\* polyfill::idl_prog::get: the declaration of a named type in one program.
idl_prog_get(prog, id) ==
  IF \E d \in prog.decs : d.name = id
    THEN [some |-> TRUE, ty |-> (CHOOSE d \in prog.decs : d.name = id).ty]
    ELSE [some |-> FALSE, ty |-> PrimT("nat")]

\* ---------------------------------------------------------------- documents
\* serde_json::Value. An object has one key (s) bound to a number (n).
JNull == [j |-> "null", n |-> 0, s |-> "", items |-> <<>>]
JNum(n) == [j |-> "num", n |-> n, s |-> "", items |-> <<>>]
JStr(s) == [j |-> "str", n |-> 0, s |-> s, items |-> <<>>]
JObj(key, n) == [j |-> "obj", n |-> n, s |-> key, items |-> <<>>]
JArr(items) == [j |-> "arr", n |-> 0, s |-> "", items |-> items]

\* serde_yaml::Value
YNull == [y |-> "Null", n |-> 0, s |-> "", items |-> <<>>]
YNumber(n) == [y |-> "Number", n |-> n, s |-> "", items |-> <<>>]
YString(s) == [y |-> "String", n |-> 0, s |-> s, items |-> <<>>]
YMapping(key, n) == [y |-> "Mapping", n |-> n, s |-> key, items |-> <<>>]
YSequence(items) == [y |-> "Sequence", n |-> 0, s |-> "", items |-> items]

\* The text on standard input of json2idl: text serde_json rejects, or the
\* text of a document.
MalformedJson == [wf |-> FALSE, doc |-> JNull]
JsonText(doc) == [wf |-> TRUE, doc |-> doc]

json_str_to_value(json_str) ==
  IF json_str.wf THEN [ok |-> TRUE, val |-> json_str.doc, err |-> ""]
  ELSE [ok |-> FALSE, val |-> JNull, err |-> "Malformed input"]

RECURSIVE json_value_to_yaml_value(_)
json_value_to_yaml_value(v) ==
  CASE v.j = "null" -> YNull
    [] v.j = "num" -> YNumber(v.n)
    [] v.j = "str" -> YString(v.s)
    [] v.j = "obj" -> YMapping(v.s, v.n)
    [] v.j = "arr" ->
         YSequence([i \in 1..Len(v.items) |-> json_value_to_yaml_value(v.items[i])])

\* ---------------------------------------------------------------- IDL values
\* candid IDLValue. A record has one field, named (s) or known by its hash
\* (id) only, bound to a nat (n).
VNat(n) == [v |-> "nat", n |-> n, s |-> "", id |-> 0]
VText(s) == [v |-> "text", n |-> 0, s |-> s, id |-> 0]
VNone == [v |-> "none", n |-> 0, s |-> "", id |-> 0]
VSome(n) == [v |-> "some", n |-> n, s |-> "", id |-> 0]
VRecNamed(f, n) == [v |-> "rec", n |-> n, s |-> f, id |-> 0]
VRecHashed(h, n) == [v |-> "rec", n |-> n, s |-> "", id |-> h]

\* candid's field hash; 7 stands for the hash of the one field name of the model.
idl_hash(f) == IF f = "foo" THEN 7 ELSE 0

\* IDLValue::to_string (candid's value printer)
IDLValue_to_string(val) ==
  CASE val.v = "nat" -> <<ToString(val.n), " : nat">>
    [] val.v = "text" -> <<"\"", val.s, "\"">>
    [] val.v = "none" -> <<"null">>
    [] val.v = "some" -> <<"opt (", ToString(val.n), " : nat", ")">>
    [] val.v = "rec" ->
         <<"record { ", (IF val.s = "" THEN ToString(val.id) ELSE val.s), " = ",
           ToString(val.n), " : nat", " }">>

RECURSIVE JoinWith(_, _)
\* [String]::join
JoinWith(texts, sep) ==
  IF texts = <<>> THEN <<>>
  ELSE IF Len(texts) = 1 THEN texts[1]
  ELSE texts[1] \o sep \o JoinWith(Tail(texts), sep)

\* IDLArgs::to_string (candid's value printer)
IDLArgs_to_string(vals) ==
  <<"(">> \o JoinWith([i \in 1..Len(vals) |-> IDLValue_to_string(vals[i])], <<", ">>)
    \o <<")">>

\* ---------------------------------------------------------------- document to IDL
ConvOk(val) == [ok |-> TRUE, val |-> val, err |-> ""]
ConvErr(msg) == [ok |-> FALSE, val |-> VNone, err |-> msg]

RECURSIVE Yaml2Candid_convert(_, _, _)
\* Yaml2Candid::convert: the type-directed conversion of one document value.
Yaml2Candid_convert(prog, typ, yaml) ==
  CASE typ.k = "var" ->
         LET dec == idl_prog_get(prog, typ.id) IN
         IF dec.some THEN Yaml2Candid_convert(prog, dec.ty, yaml)
         ELSE ConvErr("UnknownType")
    [] typ.k = "prim" /\ typ.n = "nat" ->
         IF yaml.y = "Number" THEN ConvOk(VNat(yaml.n)) ELSE ConvErr("TypeMismatch")
    [] typ.k = "prim" /\ typ.n = "text" ->
         IF yaml.y = "String" THEN ConvOk(VText(yaml.s)) ELSE ConvErr("TypeMismatch")
    [] typ.k = "opt" ->
         IF yaml.y = "Null" THEN ConvOk(VNone)
         ELSE IF yaml.y = "Number" THEN ConvOk(VSome(yaml.n))
         ELSE ConvErr("TypeMismatch")
    [] typ.k = "rec" ->
         IF yaml.y # "Mapping" THEN ConvErr("TypeMismatch")
         ELSE IF yaml.s # typ.n THEN ConvErr("MissingField")
         ELSE ConvOk(VRecNamed(typ.n, yaml.n))

\* reverse_conversion::convert_one
rc_convert_one(prog, typ, json_value) ==
  LET yaml_value == json_value_to_yaml_value(json_value)
      idl_value == Yaml2Candid_convert(prog, typ, yaml_value)
  IN IF idl_value.ok THEN Ok(IDLValue_to_string(idl_value.val)) ELSE Err(idl_value.err)

json2idl_with_type_name(prog, type_name, json_str) ==
  LET json_value == json_str_to_value(json_str) IN
  IF ~json_value.ok THEN Err(json_value.err)
  ELSE rc_convert_one(prog, VarT(type_name), json_value.val)

json2idl_with_type(prog, idl_type, json_str) ==
  LET json_value == json_str_to_value(json_str) IN
  IF ~json_value.ok THEN Err(json_value.err)
  ELSE rc_convert_one(prog, idl_type, json_value.val)

RECURSIVE CollectArgs_skip(_)
\* Variant of CollectArgs: a best-effort collect that drops the elements that
\* failed.
CollectArgs_skip(results) ==
  IF results = <<>> THEN [ok |-> TRUE, vals |-> <<>>, err |-> ""]
  ELSE LET rest == CollectArgs_skip(Tail(results)) IN
    IF Head(results).ok THEN [rest EXCEPT !.vals = <<Head(results).val>> \o @] ELSE rest

RECURSIVE CollectArgs(_)
\* Iterator::collect::<anyhow::Result<Vec<_>>>: the values when every element
\* is Ok, the first error otherwise.
CollectArgs(results) ==
  IF results = <<>> THEN [ok |-> TRUE, vals |-> <<>>, err |-> ""]
  ELSE IF ~Head(results).ok THEN [ok |-> FALSE, vals |-> <<>>, err |-> Head(results).err]
  ELSE LET rest == CollectArgs(Tail(results)) IN
    IF rest.ok THEN [rest EXCEPT !.vals = <<Head(results).val>> \o @] ELSE rest

\* Variant of ZipConvert: every element against the first type.
ZipConvert_first_type(prog, idl_types, json_args) ==
  [i \in 1..(IF Len(json_args) < Len(idl_types) THEN Len(json_args) ELSE Len(idl_types)) |->
     Yaml2Candid_convert(prog, idl_types[1], json_value_to_yaml_value(json_args[i]))]

\* json_args.iter().zip(idl_types.args.iter()).map(..): element i against type i.
ZipConvert(prog, idl_types, json_args) ==
  [i \in 1..(IF Len(json_args) < Len(idl_types) THEN Len(json_args) ELSE Len(idl_types)) |->
     Yaml2Candid_convert(prog, idl_types[i], json_value_to_yaml_value(json_args[i]))]

\* Variant of json_args2idl_with_types: only a list that is too short is
\* rejected for its length.
json_args2idl_with_types_lt(prog, idl_types, json_str) ==
  LET json_value == json_str_to_value(json_str) IN
  IF ~json_value.ok THEN Err(json_value.err)
  ELSE IF json_value.val.j # "arr" THEN Err("Expected a JSON array")
  ELSE IF Len(json_value.val.items) < Len(idl_types)
    THEN Err("Expected N JSON values for candid args but got M")
  ELSE LET args == CollectArgs(ZipConvert(prog, idl_types, json_value.val.items)) IN
    IF args.ok THEN Ok(IDLArgs_to_string(args.vals)) ELSE Err(args.err)

json_args2idl_with_types(prog, idl_types, json_str) ==
  LET json_value == json_str_to_value(json_str) IN
  IF ~json_value.ok THEN Err(json_value.err)
  ELSE IF json_value.val.j # "arr" THEN Err("Expected a JSON array")
  ELSE IF Len(json_value.val.items) # Len(idl_types)
    THEN Err("Expected N JSON values for candid args but got M")
  ELSE LET args == CollectArgs(ZipConvert(prog, idl_types, json_value.val.items)) IN
    IF args.ok THEN Ok(IDLArgs_to_string(args.vals)) ELSE Err(args.err)

\* ---------------------------------------------------------------- IDL to document
\* Idl2JsonOptions: the programs of every --did file and the compact flag
\* (bytes_as only affects byte vectors, which the model's values do not hold).
Idl2JsonOptions(progs, compact) == [prog |-> progs, compact |-> compact]

\* Option<IDLType>
NoType == [some |-> FALSE, ty |-> PrimT("nat")]
SomeType(ty) == [some |-> TRUE, ty |-> ty]

\* idl2json: the rendering of a value by its own shape; a field known by its
\* hash only is keyed by the hash.
idl2json(val, options) ==
  CASE val.v = "nat" -> JNum(val.n)
    [] val.v = "text" -> JStr(val.s)
    [] val.v = "none" -> JNull
    [] val.v = "some" -> JNum(val.n)
    [] val.v = "rec" -> JObj((IF val.s = "" THEN ToString(val.id) ELSE val.s), val.n)

RECURSIVE ResolveIn(_, _)
\* options.prog.iter().find_map(|prog| get(prog, name))
ResolveIn(progs, id) ==
  IF progs = <<>> THEN [some |-> FALSE, ty |-> PrimT("nat")]
  ELSE IF idl_prog_get(Head(progs), id).some THEN idl_prog_get(Head(progs), id)
  ELSE ResolveIn(Tail(progs), id)

RECURSIVE idl2json_with_weak_names(_, _, _)
\* idl2json_with_weak_names: the rendering of a value against a type; a hashed
\* field takes the declared name with that hash, and a value the type does not
\* describe is rendered by its own shape.
idl2json_with_weak_names(val, typ, options) ==
  CASE typ.k = "var" ->
         LET dec == ResolveIn(options.prog, typ.id) IN
         IF dec.some THEN idl2json_with_weak_names(val, dec.ty, options)
         ELSE idl2json(val, options)
    [] typ.k = "rec" ->
         IF val.v = "rec" /\ val.s = "" /\ val.id = idl_hash(typ.n)
           THEN JObj(typ.n, val.n)
           ELSE idl2json(val, options)
    [] OTHER -> idl2json(val, options)

\* idl_args2json_with_weak_names: one document, the list of the renderings of
\* the arguments, argument i against type i when there is one.
idl_args2json_with_weak_names(idl_args, idl_types, options) ==
  JArr([i \in 1..Len(idl_args) |->
          IF i <= Len(idl_types)
            THEN idl2json_with_weak_names(idl_args[i], idl_types[i], options)
            ELSE idl2json(idl_args[i], options)])

RECURSIVE Indent(_)
Indent(d) == IF d = 0 THEN <<>> ELSE <<"  ">> \o Indent(d - 1)

RECURSIVE serde_json_to_string(_)
\* serde_json::to_string: the compact text of a document, on one line.
serde_json_to_string(v) ==
  CASE v.j = "null" -> <<"null">>
    [] v.j = "num" -> <<ToString(v.n)>>
    [] v.j = "str" -> <<"\"", v.s, "\"">>
    [] v.j = "obj" -> <<"{", "\"", v.s, "\"", ":", ToString(v.n), "}">>
    [] v.j = "arr" ->
         <<"[">> \o JoinWith([i \in 1..Len(v.items) |-> serde_json_to_string(v.items[i])],
                            <<",">>) \o <<"]">>

RECURSIVE PrettyAt(_, _)
PrettyAt(v, d) ==
  CASE v.j = "null" -> <<"null">>
    [] v.j = "num" -> <<ToString(v.n)>>
    [] v.j = "str" -> <<"\"", v.s, "\"">>
    [] v.j = "obj" ->
         <<"{", "\n">> \o Indent(d + 1) \o <<"\"", v.s, "\"", ": ", ToString(v.n), "\n">>
           \o Indent(d) \o <<"}">>
    [] v.j = "arr" ->
         IF v.items = <<>> THEN <<"[", "]">>
         ELSE <<"[", "\n">>
                \o JoinWith([i \in 1..Len(v.items) |-> Indent(d + 1) \o PrettyAt(v.items[i], d + 1)],
                            <<",", "\n">>)
                \o <<"\n">> \o Indent(d) \o <<"]">>

\* serde_json::to_string_pretty: one member per line, indented by two spaces.
serde_json_to_string_pretty(v) == PrettyAt(v, 0)

\* Variant of convert_one: a named type that no program declares is an error.
convert_one_strict(idl_value, idl_type, idl2json_options) ==
  IF idl_type.some /\ idl_type.ty.k = "var"
       /\ ~ResolveIn(idl2json_options.prog, idl_type.ty.id).some
    THEN Err("UnknownType")
  ELSE LET json_value ==
             IF idl_type.some
               THEN idl2json_with_weak_names(idl_value, idl_type.ty, idl2json_options)
               ELSE idl2json(idl_value, idl2json_options)
       IN Ok(IF idl2json_options.compact
               THEN serde_json_to_string(json_value)
               ELSE serde_json_to_string_pretty(json_value))

\* lib::convert_one
convert_one(idl_value, idl_type, idl2json_options) ==
  LET json_value ==
        IF idl_type.some
          THEN idl2json_with_weak_names(idl_value, idl_type.ty, idl2json_options)
          ELSE idl2json(idl_value, idl2json_options)
  IN Ok(IF idl2json_options.compact
          THEN serde_json_to_string(json_value)
          ELSE serde_json_to_string_pretty(json_value))

RECURSIVE CollectStrings(_)
\* Iterator::collect::<anyhow::Result<Vec<String>>>
CollectStrings(results) ==
  IF results = <<>> THEN [ok |-> TRUE, texts |-> <<>>, err |-> ""]
  ELSE IF ~Head(results).ok THEN [ok |-> FALSE, texts |-> <<>>, err |-> Head(results).err]
  ELSE LET rest == CollectStrings(Tail(results)) IN
    IF rest.ok THEN [rest EXCEPT !.texts = <<Head(results).out>> \o @] ELSE rest

\* Variant of convert_all: the fragments are joined by a space.
convert_all_space_joined(idl_args, idl_type, idl2json_options) ==
  LET json_structures ==
        CollectStrings([i \in 1..Len(idl_args) |->
                          convert_one(idl_args[i], idl_type, idl2json_options)])
  IN IF json_structures.ok THEN Ok(JoinWith(json_structures.texts, <<" ">>))
     ELSE Err(json_structures.err)

\* lib::convert_all
convert_all(idl_args, idl_type, idl2json_options) ==
  LET json_structures ==
        CollectStrings([i \in 1..Len(idl_args) |->
                          convert_one(idl_args[i], idl_type, idl2json_options)])
  IN IF json_structures.ok THEN Ok(JoinWith(json_structures.texts, <<"\n">>))
     ELSE Err(json_structures.err)

\* The text on standard input of idl2json: text candid's parser rejects, or
\* the text of an argument list.
MalformedIdl == [wf |-> FALSE, args |-> <<>>]
IdlText(args) == [wf |-> TRUE, args |-> args]

parse_idl_args(idl_str) ==
  IF idl_str.wf THEN [ok |-> TRUE, args |-> idl_str.args, err |-> ""]
  ELSE [ok |-> FALSE, args |-> <<>>, err |-> "Malformed input"]

\* ---------------------------------------------------------------- commands
\* What a command did: its result, the branch of the decision it took
\* ("none" when it failed before deciding), the conversion it called ("none"
\* when it called none) and the types it handed to that conversion.
Run(res, route, called, types) ==
  [res |-> res, route |-> route, called |-> called, types |-> types]

Args(did, typ, init, compact) == [did |-> did, typ |-> typ, init |-> init, compact |-> compact]
Json2IdlArgs(did, typ, init) == [did |-> did, typ |-> typ, init |-> init]

\* lib::main, the branch taken with --init
main_init(idl_args, idl2json_options) ==
  IF idl2json_options.prog = <<>>
    THEN Run(Err("Please specify which .did file to use."), "init", "none", <<>>)
  ELSE LET idl_types == get_init_arg_type(Head(idl2json_options.prog)) IN
    IF ~idl_types.some
      THEN Run(Err("Failed to get the service argument from the did file."),
               "init", "none", <<>>)
    ELSE Run(Ok(serde_json_to_string(
                  idl_args2json_with_weak_names(idl_args, idl_types.args, idl2json_options))),
             "init", "idl_args2json_with_weak_names", idl_types.args)

\* lib::main, the branch taken with --typ and without --init
main_typ(idl_args, idl_type, idl2json_options) ==
  IF StartsWith(Trim(idl_type), "(")
    THEN LET idl_types == IDLTypes_from_str(idl_type) IN
      IF ~idl_types.ok THEN Run(Err("Failed to parse type"), "tuple", "none", <<>>)
      ELSE Run(Ok(serde_json_to_string(
                    idl_args2json_with_weak_names(idl_args, idl_types.args, idl2json_options))),
               "tuple", "idl_args2json_with_weak_names", idl_types.args)
  ELSE LET parsed == IDLType_from_str(idl_type) IN
    IF ~parsed.ok THEN Run(Err("Failed to parse type"), "single", "none", <<>>)
    ELSE Run(convert_all(idl_args, SomeType(parsed.ty), idl2json_options),
             "single", "convert_all", <<parsed.ty>>)

\* lib::main
main(args, idl_str) ==
  LET idl_args == parse_idl_args(idl_str)
      progs == load_did_files(args.did)
      idl2json_options == Idl2JsonOptions(progs.progs, args.compact)
  IN IF ~idl_args.ok THEN Run(Err(idl_args.err), "none", "none", <<>>)
     ELSE IF ~progs.ok THEN Run(Err(progs.err), "none", "none", <<>>)
     ELSE IF args.init THEN main_init(idl_args.args, idl2json_options)
     ELSE IF args.typ.some THEN main_typ(idl_args.args, args.typ.s, idl2json_options)
     ELSE Run(convert_all(idl_args.args, NoType, idl2json_options),
              "untyped", "convert_all", <<>>)

\* Variant of first_did_prog: the last program.
first_did_prog_last(progs) == IF progs = <<>> THEN EmptyProg ELSE progs[Len(progs)]

\* lib::main_json2idl: the first program, or an empty one
first_did_prog(progs) == IF progs = <<>> THEN EmptyProg ELSE Head(progs)

\* Variant of is_type_name: a colon does not make a type expression.
is_type_name_no_colon(trimmed_typ) ==
  /\ ~ContainsWhitespace(trimmed_typ)
  /\ ~Contains(trimmed_typ, "{")
  /\ ~Contains(trimmed_typ, "}")
  /\ ~Contains(trimmed_typ, ";")

\* lib::main_json2idl: the test that takes a type string for a type name
is_type_name(trimmed_typ) ==
  /\ ~ContainsWhitespace(trimmed_typ)
  /\ ~Contains(trimmed_typ, "{")
  /\ ~Contains(trimmed_typ, "}")
  /\ ~Contains(trimmed_typ, ":")
  /\ ~Contains(trimmed_typ, ";")

\* Variant of main_json2idl_init: no init clause counts as no init argument.
main_json2idl_init_lenient(did_prog, json_str) ==
  LET init_arg_types == get_init_arg_type(did_prog) IN
  Run(json_args2idl_with_types(did_prog, init_arg_types.args, json_str),
      "init", "json_args2idl_with_types", init_arg_types.args)

\* lib::main_json2idl, the branch taken with --init
main_json2idl_init(did_prog, json_str) ==
  LET init_arg_types == get_init_arg_type(did_prog) IN
  IF ~init_arg_types.some
    THEN Run(Err("Failed to get the service argument from the did file."),
             "init", "none", <<>>)
  ELSE Run(json_args2idl_with_types(did_prog, init_arg_types.args, json_str),
           "init", "json_args2idl_with_types", init_arg_types.args)

\* lib::main_json2idl, the branch taken with --typ and without --init
main_json2idl_typ(did_prog, typ, json_str) ==
  IF StartsWith(Trim(typ), "(")
    THEN LET idl_types == IDLTypes_from_str(typ) IN
      IF ~idl_types.ok THEN Run(Err("Failed to parse type"), "tuple", "none", <<>>)
      ELSE Run(json_args2idl_with_types(did_prog, idl_types.args, json_str),
               "tuple", "json_args2idl_with_types", idl_types.args)
  ELSE LET trimmed_typ == Trim(typ) IN
    IF is_type_name(trimmed_typ)
      THEN Run(json2idl_with_type_name(did_prog, trimmed_typ, json_str),
               "name", "json2idl_with_type_name", <<VarT(trimmed_typ)>>)
    ELSE LET idl_type == IDLType_from_str(trimmed_typ) IN
      IF ~idl_type.ok THEN Run(Err("Failed to parse type"), "literal", "none", <<>>)
      ELSE Run(json2idl_with_type(did_prog, idl_type.ty, json_str),
               "literal", "json2idl_with_type", <<idl_type.ty>>)

\* Variant of main_json2idl_no_type: a missing type string counts as an empty one.
main_json2idl_no_type_default(did_prog, json_str) ==
  main_json2idl_typ(did_prog, <<>>, json_str)

\* lib::main_json2idl, the branch taken without --typ and without --init
main_json2idl_no_type(did_prog, json_str) ==
  Run(Err("Please specify --typ or --init when converting JSON to IDL."),
      "untyped", "none", <<>>)

\* lib::main_json2idl
main_json2idl(args, json_str) ==
  LET progs == load_did_files(args.did) IN
  IF ~progs.ok THEN Run(Err(progs.err), "none", "none", <<>>)
  ELSE LET did_prog == first_did_prog(progs.progs) IN
    IF args.init THEN main_json2idl_init(did_prog, json_str)
    ELSE IF args.typ.some THEN main_json2idl_typ(did_prog, args.typ.s, json_str)
    ELSE main_json2idl_no_type(did_prog, json_str)

\* ---------------------------------------------------------------- inputs
BoundedSeq(S, n) == UNION { [1..k -> S] : k \in 0..n }

IdlValues == { VNat(0), VText("a"), VRecHashed(idl_hash("foo"), 0) }
IdlInputs == { MalformedIdl } \cup { IdlText(a) : a \in BoundedSeq(IdlValues, MaxArgs) }

JsonElements == { JNum(0), JStr("a"), JNull, JObj("foo", 0) }
JsonDocs == JsonElements \cup { JArr(a) : a \in BoundedSeq(JsonElements, MaxArgs) }
JsonInputs == { MalformedJson } \cup { JsonText(d) : d \in JsonDocs }

DidLists == BoundedSeq(DidFiles, MaxDids)
Typs == { NoTyp } \cup { SomeTyp(s) : s \in TypeStrings }

\* ---------------------------------------------------------------- state machine
VARIABLES cmd, did, typ, init, compact, idl_str, json_str, pc, res, route, called, types

vars == <<cmd, did, typ, init, compact, idl_str, json_str, pc, res, route, called, types>>

NotRun == Run(Err(""), "none", "none", <<>>)

Init ==
  /\ cmd \in {"idl2json", "json2idl"}
  /\ did \in DidLists
  /\ typ \in Typs
  /\ init \in BOOLEAN
  /\ compact \in (IF cmd = "idl2json" THEN BOOLEAN ELSE {FALSE})
  /\ idl_str \in (IF cmd = "idl2json" THEN IdlInputs ELSE {MalformedIdl})
  /\ json_str \in (IF cmd = "json2idl" THEN JsonInputs ELSE {MalformedJson})
  /\ pc = "start"
  /\ res = NotRun.res
  /\ route = NotRun.route
  /\ called = NotRun.called
  /\ types = NotRun.types

Finish(run) ==
  /\ pc' = "done"
  /\ res' = run.res
  /\ route' = run.route
  /\ called' = run.called
  /\ types' = run.types
  /\ UNCHANGED <<cmd, did, typ, init, compact, idl_str, json_str>>

\* idl2json: candid on standard input, JSON on standard output
Main ==
  /\ cmd = "idl2json"
  /\ pc = "start"
  /\ Finish(main(Args(did, typ, init, compact), idl_str))

\* json2idl: JSON on standard input, candid on standard output
MainJson2Idl ==
  /\ cmd = "json2idl"
  /\ pc = "start"
  /\ Finish(main_json2idl(Json2IdlArgs(did, typ, init), json_str))

Next == Main \/ MainJson2Idl

Spec == Init /\ [][Next]_vars

\* ---------------------------------------------------------------- properties
Done == pc = "done"

\* Every --did file was read and parsed.
Loaded == load_did_files(did).ok
Progs == load_did_files(did).progs

\* The program json2idl converts against.
DidProg == first_did_prog(Progs)

\* json2idl reached json_args2idl_with_types with a document on standard input.
ArgsCall == Done /\ cmd = "json2idl" /\ called = "json_args2idl_with_types" /\ json_str.wf

IsList(doc) == doc.j = "arr"
ArityError == "Expected N JSON values for candid args but got M"

\* Element i of the document list, converted against type i alone.
ElementConv(i) ==
  Yaml2Candid_convert(DidProg, types[i], json_value_to_yaml_value(json_str.doc.items[i]))

\* C1 (as claimed): with N declared types, every document that is not a list
\* of length N fails with the arity-mismatch error.
C1_Original ==
  (ArgsCall /\ ~(IsList(json_str.doc) /\ Len(json_str.doc.items) = Len(types)))
    => (~res.ok /\ res.err = ArityError)

\* C1 (amended): with N declared types, every document that is not a list of
\* length N fails and yields no output, whatever its elements are: a list of
\* another length with the arity-mismatch error, a value that is not a list
\* with the "Expected a JSON array" error.
C1_Amended ==
  (ArgsCall /\ ~(IsList(json_str.doc) /\ Len(json_str.doc.items) = Len(types)))
    => /\ ~res.ok
       /\ res.out = <<>>
       /\ res.err = (IF IsList(json_str.doc) THEN ArityError ELSE "Expected a JSON array")

\* A list longer than the types, whose first element does not convert against
\* the first type, is rejected for its length.
C1_Witness ==
  /\ ArgsCall
  /\ IsList(json_str.doc)
  /\ Len(types) >= 1
  /\ Len(json_str.doc.items) > Len(types)
  /\ ~ElementConv(1).ok
  /\ res.err = ArityError

\* The document is a list with one element per type, each of which converts
\* against the type at its position.
WellFormedArgs ==
  /\ IsList(json_str.doc)
  /\ Len(json_str.doc.items) = Len(types)
  /\ \A i \in 1..Len(types) : ElementConv(i).ok

\* C2: a well-formed list of length N yields N results, result i being the
\* conversion of element i against type i alone.
C2_Independent ==
  (ArgsCall /\ WellFormedArgs)
    => /\ res.ok
       /\ res.out = IDLArgs_to_string([i \in 1..Len(types) |-> ElementConv(i).val])

C2_Witness ==
  /\ ArgsCall
  /\ WellFormedArgs
  /\ Len(types) = 2
  /\ types[1] # types[2]
  /\ json_str.doc.items[1] # json_str.doc.items[2]
  /\ res.ok

\* The type convert_all converted every argument against.
SingleType == IF types = <<>> THEN NoType ELSE SomeType(types[1])
Options == Idl2JsonOptions(Progs, compact)

\* C3: when the conversion of one element fails, the operation returns an
\* error and no output, in json_args2idl_with_types and in convert_all.
C3_Terminal ==
  /\ (ArgsCall /\ IsList(json_str.doc) /\ Len(json_str.doc.items) = Len(types)
        /\ \E i \in 1..Len(types) : ~ElementConv(i).ok)
       => (~res.ok /\ res.out = <<>>)
  /\ (Done /\ cmd = "idl2json" /\ called = "convert_all"
        /\ \E i \in 1..Len(idl_str.args) : ~convert_one(idl_str.args[i], SingleType, Options).ok)
       => (~res.ok /\ res.out = <<>>)

\* The first element converts and the second does not.
C3_Witness ==
  /\ ArgsCall
  /\ IsList(json_str.doc)
  /\ Len(json_str.doc.items) = 2
  /\ Len(types) = 2
  /\ ElementConv(1).ok
  /\ ~ElementConv(2).ok
  /\ ~res.ok

\* The result of the command on the first --did file alone, without --typ.
FirstSourceOnly ==
  IF cmd = "idl2json"
    THEN main(Args(<<Head(did)>>, NoTyp, init, compact), idl_str).res
    ELSE main_json2idl(Json2IdlArgs(<<Head(did)>>, NoTyp, init), json_str).res

\* The result of the command without --typ.
WithoutTyp ==
  IF cmd = "idl2json"
    THEN main(Args(did, NoTyp, init, compact), idl_str).res
    ELSE main_json2idl(Json2IdlArgs(did, NoTyp, init), json_str).res

\* C4 (as claimed): with --init the type string and the later --did files have
\* no influence on the result.
C4_Original ==
  (Done /\ init /\ did # <<>> /\ Head(did).state = "ok"
     /\ get_init_arg_type(Head(did).prog).some)
    => res = FirstSourceOnly

\* C4 (amended): with --init, once every --did file has loaded, the conversion
\* is handed the init-argument types of the first file, the type string has no
\* influence on the result, and in json2idl the later files have none either.
C4_Amended ==
  (Done /\ init /\ did # <<>> /\ Loaded)
    => /\ (cmd = "json2idl" \/ idl_str.wf) => route = "init"
       /\ called # "none" =>
            /\ get_init_arg_type(Head(Progs)).some
            /\ types = get_init_arg_type(Head(Progs)).args
            /\ called = (IF cmd = "idl2json" THEN "idl_args2json_with_weak_names"
                         ELSE "json_args2idl_with_types")
       /\ res = WithoutTyp
       /\ cmd = "json2idl" => res = FirstSourceOnly

\* Two files with different init arguments and a type string.
C4_Witness ==
  /\ Done
  /\ init
  /\ Len(did) = 2
  /\ Loaded
  /\ typ.some
  /\ get_init_arg_type(Progs[2]).some
  /\ get_init_arg_type(Progs[1]).args # get_init_arg_type(Progs[2]).args
  /\ cmd = "json2idl"
  /\ Len(types) >= 1
  /\ res.ok

Render(c, doc) == IF c THEN serde_json_to_string(doc) ELSE serde_json_to_string_pretty(doc)

\* C5: without --init and without --typ, json2idl fails with the "type
\* required" error for every payload, and idl2json renders every argument by
\* its own shape (the --did files having loaded).
C5_NoType ==
  (Done /\ ~init /\ ~typ.some /\ Loaded)
    => /\ cmd = "json2idl" =>
            /\ res = Err("Please specify --typ or --init when converting JSON to IDL.")
            /\ called = "none"
       /\ (cmd = "idl2json" /\ idl_str.wf) =>
            /\ res.ok
            /\ res.out = JoinWith([i \in 1..Len(idl_str.args) |->
                                     Render(compact, idl2json(idl_str.args[i], Options))],
                                  <<"\n">>)

\* A hashed record is rendered by its hash although a loaded file declares a
\* type with that field.
C5_Witness ==
  /\ Done
  /\ cmd = "idl2json"
  /\ ~init
  /\ ~typ.some
  /\ did = <<DidInitText>>
  /\ idl_str.wf
  /\ Len(idl_str.args) = 2
  /\ idl_str.args[2].v = "rec"
  /\ res.ok

\* idl2json reached a conversion of the arguments on standard input.
FragmentsCall == Done /\ cmd = "idl2json" /\ called = "convert_all"
MergedCall == Done /\ cmd = "idl2json" /\ called = "idl_args2json_with_weak_names"

\* The document of argument i.
ArgDoc(i) ==
  IF called = "convert_all"
    THEN (IF SingleType.some
            THEN idl2json_with_weak_names(idl_str.args[i], SingleType.ty, Options)
            ELSE idl2json(idl_str.args[i], Options))
    ELSE (IF i <= Len(types)
            THEN idl2json_with_weak_names(idl_str.args[i], types[i], Options)
            ELSE idl2json(idl_str.args[i], Options))

Newlines(text) == Cardinality({ i \in 1..Len(text) : text[i] = "\n" })

\* The N fragments of the N arguments, one per line.
OnePerLine(text) ==
  \E style \in BOOLEAN :
    /\ text = JoinWith([i \in 1..Len(idl_str.args) |-> Render(style, ArgDoc(i))], <<"\n">>)
    /\ \A i \in 1..Len(idl_str.args) : Newlines(Render(style, ArgDoc(i))) = 0

\* C6 (as claimed): on both paths the output is the N fragments of the N
\* arguments in argument order, one per line.
C6_Original == (FragmentsCall \/ MergedCall) => (res.ok /\ OnePerLine(res.out))

\* C6 (amended): convert_all yields the N fragments of the N arguments in
\* argument order, separated by a line break, each on one line when compact is
\* set; the idl_args2json_with_weak_names path yields one compact document on
\* one line.
C6_Amended ==
  /\ FragmentsCall =>
       /\ res.ok
       /\ res.out = JoinWith([i \in 1..Len(idl_str.args) |-> Render(compact, ArgDoc(i))],
                             <<"\n">>)
       /\ compact => OnePerLine(res.out)
  /\ MergedCall =>
       /\ res.ok
       /\ Newlines(res.out) = 0
       /\ res.out = serde_json_to_string(
                      idl_args2json_with_weak_names(idl_str.args, types, Options))

\* Two different arguments, the first of them spanning several lines.
C6_Witness ==
  /\ FragmentsCall
  /\ Len(idl_str.args) = 2
  /\ idl_str.args[1] # idl_str.args[2]
  /\ ~compact
  /\ Newlines(Render(compact, ArgDoc(1))) > 0
  /\ res.ok

\* C7: on every path of idl2json the output is compact with --compact and
\* pretty-printed without it.
C7_Compact ==
  /\ FragmentsCall =>
       res.out = JoinWith([i \in 1..Len(idl_str.args) |-> Render(compact, ArgDoc(i))],
                          <<"\n">>)
  /\ MergedCall =>
       res.out = Render(compact, idl_args2json_with_weak_names(idl_str.args, types, Options))

\* There is no service definition to take init arguments from.
NoInitSource ==
  \/ did = <<>>
  \/ (Head(did).state = "ok" /\ Head(did).prog.actor.k # "class")

\* C8: with --init and no service definition to take init arguments from,
\* both commands fail and yield no output.
C8_NoInitArgs ==
  (Done /\ init /\ NoInitSource)
    => /\ ~res.ok
       /\ res.out = <<>>
       /\ called = "none"
       /\ (Loaded /\ (cmd = "json2idl" \/ idl_str.wf)) =>
            res.err = (IF cmd = "idl2json" /\ did = <<>>
                         THEN "Please specify which .did file to use."
                         ELSE "Failed to get the service argument from the did file.")

\* No --did file at all and a payload an empty argument list would accept.
C8_Witness ==
  /\ Done
  /\ init
  /\ cmd = "json2idl"
  /\ did = <<>>
  /\ json_str = JsonText(JArr(<<>>))
  /\ ~res.ok

\* C9: every parsed argument list, with a single type or without a type, is
\* converted with success: each argument yields a document.
C9_NeverFails ==
  (Done /\ cmd = "idl2json" /\ idl_str.wf /\ Loaded /\ ~init
     /\ (typ.some => (~StartsWith(Trim(typ.s), "(") /\ IDLType_from_str(typ.s).ok)))
    => /\ called = "convert_all"
       /\ res.ok
       /\ \A i \in 1..Len(idl_str.args) : convert_one(idl_str.args[i], SingleType, Options).ok

\* A value converted against a named type that no file declares.
C9_Witness ==
  /\ FragmentsCall
  /\ SingleType.some
  /\ SingleType.ty.k = "var"
  /\ ~ResolveIn(Progs, SingleType.ty.id).some
  /\ Len(idl_str.args) = 2
  /\ res.ok

TypeExpressionChars == {" ", "\t", "\n", "{", "}", ":", ";"}

\* C10: in json2idl without --init a type string is routed on its trimmed
\* text: a leading '(' makes it a tuple of types for an argument list; else,
\* without white space, '{', '}', ':' and ';', it is a type name, looked up and
\* not parsed; else it is parsed as a type literal for a single value.
C10_Routing ==
  (Done /\ cmd = "json2idl" /\ ~init /\ typ.some /\ Loaded)
    => LET t == Trim(typ.s) IN
       IF t # <<>> /\ t[1] = "("
         THEN /\ route = "tuple"
              /\ IF IDLTypes_from_str(typ.s).ok
                   THEN /\ called = "json_args2idl_with_types"
                        /\ types = IDLTypes_from_str(typ.s).args
                   ELSE called = "none" /\ res = Err("Failed to parse type")
       ELSE IF \A i \in 1..Len(t) : t[i] \notin TypeExpressionChars
         THEN /\ route = "name"
              /\ called = "json2idl_with_type_name"
              /\ types = <<VarT(t)>>
              /\ res = json2idl_with_type_name(DidProg, t, json_str)
       ELSE /\ route = "literal"
            /\ IF IDLType_from_str(t).ok
                 THEN /\ called = "json2idl_with_type"
                      /\ types = <<IDLType_from_str(t).ty>>
                      /\ res = json2idl_with_type(DidProg, IDLType_from_str(t).ty, json_str)
                 ELSE called = "none" /\ res = Err("Failed to parse type")

\* "nat" is taken for the name of a type, which no file declares, although
\* it is the text of a primitive type.
C10_Witness ==
  /\ Done
  /\ cmd = "json2idl"
  /\ ~init
  /\ typ = SomeTyp(S_nat)
  /\ Loaded
  /\ json_str = JsonText(JNum(0))
  /\ route = "name"
  /\ res = Err("UnknownType")

====
